---- MODULE Spec2Model ----
(***************************************************************************)
(* A model of @lumi-launcher/innosetup (src/src/index.ts): the wrapper     *)
(* that resolves ISCC.exe, builds its argument list, spawns it and turns   *)
(* the child process's events into a settled promise.                      *)
(*                                                                         *)
(* Conventions.                                                            *)
(*  - An optional JavaScript value is a sequence of length at most one:    *)
(*    <<>> is undefined, <<v>> is the value v.                             *)
(*  - A path string is kept split at its separators: [abs, segs], where    *)
(*    abs says whether the string starts with the separator.  The empty    *)
(*    string is [abs |-> FALSE, segs |-> <<>>].  PathToString gives back   *)
(*    the text of an absolute path.                                        *)
(*  - Text (argument tokens, captured output, messages) is a TLA+ string,  *)
(*    concatenated with \o.                                                *)
(*  - JavaScript numbers are restricted to integers.                       *)
(*  - Paths are written with "/" as the separator.                         *)
(*  - The child process is an event emitter: "data" of either stream in    *)
(*    any order until "close"; "error" at most once and before "close";    *)
(*    "close" once, also after "error".  After a failure to spawn the      *)
(*    runtime emits "error" and then "close"; the handlers are modelled    *)
(*    for the emitter's general contract, so "error" may also follow       *)
(*    output.                                                              *)
(***************************************************************************)
EXTENDS Integers, Sequences, FiniteSets, TLC

\* ------------------------------------------------------------------ bounds

\* Entries of the defines mapping.
MaxDefines == 2
\* Entries of extraArgs.
MaxExtraArgs == 2
\* Output chunks one child process emits (both streams together), Spec.
MaxChunks == 2
\* Concurrent invocations of compile, SpecConcurrent.
NumCalls == 2
\* Output chunks one child process emits, SpecConcurrent.
MaxConcChunks == 1

\* ------------------------------------------------------- optional values

None == <<>>

Some(v) == <<v>>

IsDefined(o) == o # <<>>

\* ------------------------------------------------------------------ paths

\* process.cwd(), which path.resolve prepends to a relative path.
Cwd == <<"proj">>

\* The package's own directory (dist/), from which the bundled compiler is
\* looked up: one level up, then bin/ISCC.exe.
ModuleDir == <<"pkg", "dist">>

Path(abs, segs) == [abs |-> abs, segs |-> segs]

EmptyString == Path(FALSE, <<>>)

\* Truthiness of a string-valued option: defined and not the empty string.
IsTruthyPath(o) == IsDefined(o) /\ o[1] # EmptyString

RECURSIVE Normalize(_, _)
\* Folds the segments onto an absolute stack: "." and empty segments are
\* dropped, ".." pops (and stays at the root when there is nothing to pop).
Normalize(stack, segs) ==
    IF segs = <<>> THEN stack
    ELSE LET s == Head(segs) IN
         IF s = "." \/ s = "" THEN Normalize(stack, Tail(segs))
         ELSE IF s = ".."
              THEN Normalize(IF stack = <<>> THEN <<>>
                             ELSE SubSeq(stack, 1, Len(stack) - 1), Tail(segs))
              ELSE Normalize(Append(stack, s), Tail(segs))

\* path.resolve(p): the absolute, normalized segments of p.
PathResolve(p) == Normalize(IF p.abs THEN <<>> ELSE Cwd, p.segs)

\* path.resolve(a, b, ...) of an absolute directory and relative segments.
PathResolveFrom(dir, segs) == Normalize(dir, segs)

RECURSIVE PathToString(_)
\* The text of an absolute path.
PathToString(segs) ==
    IF segs = <<>> THEN "/"
    ELSE IF Len(segs) = 1 THEN "/" \o segs[1]
    ELSE PathToString(SubSeq(segs, 1, Len(segs) - 1)) \o "/" \o segs[Len(segs)]

\* path.dirname(fileURLToPath(import.meta.url)) joined with "..", "bin",
\* "ISCC.exe".
DEFAULT_BUNDLED_COMPILER == PathResolveFrom(ModuleDir, <<"..", "bin", "ISCC.exe">>)

\* fs.existsSync on a set of existing absolute paths.
ExistsSync(files, abspath) == abspath \in files

\* ------------------------------------------------------ String(value)

Digit(d) ==
    CASE d = 0 -> "0" [] d = 1 -> "1" [] d = 2 -> "2" [] d = 3 -> "3"
      [] d = 4 -> "4" [] d = 5 -> "5" [] d = 6 -> "6" [] d = 7 -> "7"
      [] d = 8 -> "8" [] d = 9 -> "9"

RECURSIVE NatToString(_)
NatToString(n) ==
    IF n < 10 THEN Digit(n) ELSE NatToString(n \div 10) \o Digit(n % 10)

\* A value of a define: string | number | boolean | undefined.
StrValue(s) == [type |-> "string", str |-> s, num |-> 0, bool |-> FALSE]

NumValue(n) == [type |-> "number", str |-> "", num |-> n, bool |-> FALSE]

BoolValue(b) == [type |-> "boolean", str |-> "", num |-> 0, bool |-> b]

UndefinedValue == [type |-> "undefined", str |-> "", num |-> 0, bool |-> FALSE]

\* JavaScript's String(value).
JsString(v) ==
    CASE v.type = "string" -> v.str
      [] v.type = "number" ->
            IF v.num < 0 THEN "-" \o NatToString(0 - v.num) ELSE NatToString(v.num)
      [] v.type = "boolean" -> IF v.bool THEN "true" ELSE "false"
      [] OTHER -> "undefined"

\* --------------------------------------------------------- buildArguments

RECURSIVE buildDefinesFalsy(_)
\* The loop with `if (!value) continue` in place of `if (value === false)`:
\* drops 0, "" and undefined along with false.
buildDefinesFalsy(entries) ==
    IF entries = <<>> THEN <<>>
    ELSE LET name == Head(entries).name
             value == Head(entries).value
             falsy == \/ value = BoolValue(FALSE)
                      \/ value = UndefinedValue
                      \/ value = NumValue(0)
                      \/ value = StrValue("")
         IN  IF falsy THEN buildDefinesFalsy(Tail(entries))
             ELSE LET v1 == IF value = BoolValue(TRUE) THEN UndefinedValue ELSE value
                  IN  <<IF v1 = UndefinedValue THEN "/D" \o name
                        ELSE "/D" \o name \o "=" \o JsString(v1)>>
                      \o buildDefinesFalsy(Tail(entries))

RECURSIVE buildDefines(_)
\* The for-of loop over Object.entries(options.defines): the tokens pushed
\* for the entries, in iteration order.
buildDefines(entries) ==
    IF entries = <<>> THEN <<>>
    ELSE LET name == Head(entries).name
             value == Head(entries).value
         IN  IF value = BoolValue(FALSE)
             THEN buildDefines(Tail(entries))          \* continue
             ELSE LET v1 == IF value = BoolValue(TRUE) THEN UndefinedValue ELSE value
                      v2 == IF v1 # UndefinedValue THEN StrValue(JsString(v1)) ELSE v1
                  IN  <<IF v2 = UndefinedValue THEN "/D" \o name
                        ELSE "/D" \o name \o "=" \o v2.str>>
                      \o buildDefines(Tail(entries))

\* buildArguments with the script path pushed before the extra arguments.
buildArgumentsScriptFirst(options) ==
    (IF options.quiet = Some(TRUE) THEN <<"/Q">> ELSE <<>>)
    \o (IF IsTruthyPath(options.outputDir)
        THEN <<"/O" \o PathToString(PathResolve(options.outputDir[1]))>> ELSE <<>>)
    \o (IF IsDefined(options.outputBaseName) /\ options.outputBaseName[1] # ""
        THEN <<"/F" \o options.outputBaseName[1]>> ELSE <<>>)
    \o (IF IsDefined(options.defines) THEN buildDefines(options.defines[1]) ELSE <<>>)
    \o <<options.scriptPath>>
    \o (IF IsDefined(options.extraArgs) /\ Len(options.extraArgs[1]) > 0
        THEN options.extraArgs[1] ELSE <<>>)

\* buildArguments(options); options.scriptPath is the text of the path that
\* compile has made absolute.
buildArguments(options) ==
    (IF options.quiet = Some(TRUE) THEN <<"/Q">> ELSE <<>>)
    \o (IF IsTruthyPath(options.outputDir)
        THEN <<"/O" \o PathToString(PathResolve(options.outputDir[1]))>> ELSE <<>>)
    \o (IF IsDefined(options.outputBaseName) /\ options.outputBaseName[1] # ""
        THEN <<"/F" \o options.outputBaseName[1]>> ELSE <<>>)
    \o (IF IsDefined(options.defines) THEN buildDefines(options.defines[1]) ELSE <<>>)
    \o (IF IsDefined(options.extraArgs) /\ Len(options.extraArgs[1]) > 0
        THEN options.extraArgs[1] ELSE <<>>)
    \o <<options.scriptPath>>

\* ------------------------------------------------------------ the state

VARIABLES
    \* The filesystem: the set of absolute paths that exist.
    fs,
    \* Per invocation of compile: what the call did synchronously and the
    \* closure of runCompiler (command, args, noThrow, the two buffers and
    \* the promise).
    inv,
    \* Per invocation: its child process as the runtime sees it (what was
    \* spawned, the chunks and terminal events it has emitted so far).
    child,
    \* Per invocation: what the caller observes beside the promise (the
    \* filesystem it called compile on, what its sinks were given).
    caller,
    \* The options handed to buildArguments and the list it returned.
    argIn,
    argOut

vars == <<fs, inv, child, caller, argIn, argOut>>

\* ------------------------------------------------- resolveCompilerPath

\* What a function that may throw gives back: a value, or the message of
\* the Error it threw.
Returned(v) == [ok |-> TRUE, value |-> v, error |-> ""]

Threw(message) == [ok |-> FALSE, value |-> <<>>, error |-> message]

\* resolveCompilerPath that falls back to the bundled compiler when the
\* explicit path is missing, instead of throwing.
resolveCompilerPathFallback(files, explicit) ==
    IF IsTruthyPath(explicit) /\ ExistsSync(files, PathResolve(explicit[1]))
    THEN Returned(PathResolve(explicit[1]))
    ELSE IF ExistsSync(files, DEFAULT_BUNDLED_COMPILER)
         THEN Returned(DEFAULT_BUNDLED_COMPILER)
         ELSE Threw("Bundled ISCC.exe not found at "
                    \o PathToString(DEFAULT_BUNDLED_COMPILER)
                    \o ". Download Inno Setup and pass a compilerPath instead.")

resolveCompilerPath(files, explicit) ==
    IF IsTruthyPath(explicit)
    THEN LET normalizedPath == PathResolve(explicit[1])
         IN  IF ~ExistsSync(files, normalizedPath)
             THEN Threw("Provided ISCC.exe not found: " \o PathToString(normalizedPath))
             ELSE Returned(normalizedPath)
    ELSE IF ExistsSync(files, DEFAULT_BUNDLED_COMPILER)
         THEN Returned(DEFAULT_BUNDLED_COMPILER)
         ELSE Threw("Bundled ISCC.exe not found at "
                    \o PathToString(DEFAULT_BUNDLED_COMPILER)
                    \o ". Download Inno Setup and pass a compilerPath instead.")

\* ----------------------------------------------- ensureDirectoryExists

\* The non-empty prefixes of an absolute path: the directory and its parents.
Ancestors(dir) == {SubSeq(dir, 1, k) : k \in 1..Len(dir)}

\* fs.mkdirSync(dir, { recursive: true }).
MkdirSyncRecursive(files, dir) == files \cup Ancestors(dir)

\* ensureDirectoryExists with the test inverted: mkdir only when the
\* directory is already there.
ensureDirectoryExistsInverted(files, target) ==
    LET dir == PathResolve(target)
    IN  IF ExistsSync(files, dir) THEN MkdirSyncRecursive(files, dir) ELSE files

ensureDirectoryExists(files, target) ==
    LET dir == PathResolve(target)
    IN  IF ~ExistsSync(files, dir) THEN MkdirSyncRecursive(files, dir) ELSE files

\* ------------------------------------------------------------ runCompiler

\* chunk.toString() of a Buffer: UTF-8 decoding of the chunk's bytes on
\* their own.  Bytes 97..100 are the letters a..d; 195 169 is the two-byte
\* encoding of U+00E9; a lead byte without its continuation byte, or a
\* continuation byte without its lead, decodes to U+FFFD.
RECURSIVE BufferToString(_)
BufferToString(bytes) ==
    IF bytes = <<>> THEN ""
    ELSE LET b == Head(bytes) IN
         IF b = 195 /\ Len(bytes) >= 2 /\ bytes[2] = 169
         THEN "<U+00E9>" \o BufferToString(Tail(Tail(bytes)))
         ELSE (CASE b = 97 -> "a" [] b = 98 -> "b" [] b = 99 -> "c"
                 [] b = 100 -> "d" [] OTHER -> "<U+FFFD>")
              \o BufferToString(Tail(bytes))

\* The promise runCompiler returns.  state "none": no promise was made.
NoPromise == [state |-> "none", name |-> "", message |-> "", result |-> None]

PendingPromise == [state |-> "pending", name |-> "", message |-> "", result |-> None]

Fulfilled(result) ==
    [state |-> "fulfilled", name |-> "", message |-> "", result |-> Some(result)]

\* Rejected with new InnoSetupCompilerError(message, result).
Rejected(message, result) ==
    [state |-> "rejected", name |-> "InnoSetupCompilerError",
     message |-> message, result |-> Some(result)]

\* A promise whose later resolve or reject replaces the outcome.
SettleOverwrite(promise, outcome) == outcome

\* resolve(...) or reject(...) of the promise's executor: only the first
\* call settles the promise, the later ones do nothing.
Settle(promise, outcome) ==
    IF promise.state = "pending" THEN outcome ELSE promise

\* The stdout handler writing to one buffer shared by all invocations.
stdoutHandlerShared(invs, i, text) ==
    [j \in DOMAIN invs |-> [invs[j] EXCEPT !.stdout = @ \o text]]

\* The stdout handler keeping the last chunk only.
stdoutHandlerLast(invs, i, text) ==
    [invs EXCEPT ![i].stdout = text]

\* child.stdout.on("data"): stdout += text.
stdoutHandler(invs, i, text) ==
    [invs EXCEPT ![i].stdout = @ \o text]

\* child.stderr.on("data"): stderr += text.
stderrHandler(invs, i, text) ==
    [invs EXCEPT ![i].stderr = @ \o text]

\* The result of the "error" handler with stderr always the message.
errorResultMessageOnly(r, message) ==
    [command |-> r.command, args |-> r.args, exitCode |-> None,
     stdout |-> r.stdout, stderr |-> message, success |-> FALSE]

\* The CompilerResult built by the "error" handler.
errorResult(r, message) ==
    [command |-> r.command, args |-> r.args, exitCode |-> None,
     stdout |-> r.stdout,
     stderr |-> IF r.stderr # "" THEN r.stderr ELSE message,
     success |-> FALSE]

\* The result of the "close" handler with success: !code.
closeResultNotCode(r, code) ==
    [command |-> r.command, args |-> r.args, exitCode |-> code,
     stdout |-> r.stdout, stderr |-> r.stderr,
     success |-> (code = None \/ code = Some(0))]

\* The CompilerResult built by the "close" handler; code is null (None)
\* or a number.
closeResult(r, code) ==
    [command |-> r.command, args |-> r.args, exitCode |-> code,
     stdout |-> r.stdout, stderr |-> r.stderr,
     success |-> (code = Some(0))]

\* `${code}` in the template of the rejection's message.
CodeToString(code) ==
    IF code = None THEN "null" ELSE JsString(NumValue(code[1]))

\* The "error" handler rejecting whatever noThrow is.
errorHandlerAlwaysReject(r, message) ==
    [r EXCEPT !.promise =
        Settle(@, Rejected("Failed to start Inno Setup compiler.",
                           errorResult(r, message)))]

\* child.on("error", ...).
errorHandler(r, message) ==
    LET result == errorResult(r, message)
    IN  [r EXCEPT !.promise =
            Settle(@, IF r.noThrow THEN Fulfilled(result)
                      ELSE Rejected("Failed to start Inno Setup compiler.", result))]

\* child.on("close", ...).
closeHandler(r, code) ==
    LET result == closeResult(r, code)
    IN  [r EXCEPT !.promise =
            Settle(@, IF result.success \/ r.noThrow THEN Fulfilled(result)
                      ELSE Rejected("Inno Setup compiler exited with code "
                                    \o CodeToString(code), result))]

\* An invocation that has not been made.
IdleInvocation ==
    [status |-> "idle", options |-> None, thrown |-> "",
     command |-> "", args |-> <<>>, noThrow |-> FALSE,
     stdout |-> "", stderr |-> "", promise |-> NoPromise]

\* A child process that has not been spawned.
NoChild ==
    [spawned |-> FALSE, command |-> "", args |-> <<>>, files |-> {},
     stdoutChunks |-> <<>>, stderrChunks |-> <<>>, events |-> <<>>]

NoCaller == [filesAtCall |-> {}, onStdout |-> <<>>, onStderr |-> <<>>]

\* The closure runCompiler sets up: the promise is pending, the buffers
\* are empty.
runCompiler(options, command, args, noThrow) ==
    [status |-> "spawned", options |-> Some(options), thrown |-> "",
     command |-> command, args |-> args, noThrow |-> noThrow,
     stdout |-> "", stderr |-> "", promise |-> PendingPromise]

\* spawn(command, args, ...): the child process, and the filesystem it is
\* started on.
spawn(command, args, files) ==
    [spawned |-> TRUE, command |-> command, args |-> args, files |-> files,
     stdoutChunks |-> <<>>, stderrChunks |-> <<>>, events |-> <<>>]

\* compile throwing synchronously: no promise, no process.
compileThrew(options, message) ==
    [IdleInvocation EXCEPT !.status = "threw", !.options = Some(options),
                           !.thrown = message]

\* ---------------------------------------------------------------- actions

\* compile(options), invocation i.  spawn is taken to return a child
\* process; a failure to start it is reported by the child's "error" event.
compile(i, options) ==
    /\ inv[i].status = "idle"
    /\ caller' = [caller EXCEPT ![i].filesAtCall = fs]
    /\ UNCHANGED <<argIn, argOut>>
    /\ LET scriptPath == PathResolve(options.scriptPath)
           compilerPath == resolveCompilerPath(fs, options.compilerPath)
       IN  IF ~ExistsSync(fs, scriptPath)
           THEN /\ inv' = [inv EXCEPT ![i] =
                             compileThrew(options, "Inno Setup script not found: "
                                                   \o PathToString(scriptPath))]
                /\ UNCHANGED <<fs, child>>
           ELSE IF ~compilerPath.ok
           THEN /\ inv' = [inv EXCEPT ![i] = compileThrew(options, compilerPath.error)]
                /\ UNCHANGED <<fs, child>>
           ELSE LET args == buildArguments(
                                [options EXCEPT !.scriptPath = PathToString(scriptPath)])
                    files == IF IsTruthyPath(options.outputDir)
                             THEN ensureDirectoryExists(fs, options.outputDir[1])
                             ELSE fs
                    command == PathToString(compilerPath.value)
                IN  /\ fs' = files
                    /\ inv' = [inv EXCEPT ![i] =
                                 runCompiler(options, command, args,
                                             options.noThrow = Some(TRUE))]
                    /\ child' = [child EXCEPT ![i] = spawn(command, args, files)]

\* The two streams are open until "close" is emitted.
StreamsOpen(i) ==
    /\ child[i].spawned
    /\ \A k \in 1..Len(child[i].events) : child[i].events[k].type # "close"

ChunkCount(i) == Len(child[i].stdoutChunks) + Len(child[i].stderrChunks)

\* A "data" event of child i's stdout.
StdoutData(i, chunk, maxChunks) ==
    /\ StreamsOpen(i)
    /\ ChunkCount(i) < maxChunks
    /\ LET text == BufferToString(chunk)
       IN  /\ inv' = stdoutHandler(inv, i, text)
           /\ caller' = IF inv[i].options[1].onStdout
                        THEN [caller EXCEPT ![i].onStdout = Append(@, text)]
                        ELSE caller
    /\ child' = [child EXCEPT ![i].stdoutChunks = Append(@, chunk)]
    /\ UNCHANGED <<fs, argIn, argOut>>

\* A "data" event of child i's stderr.
StderrData(i, chunk, maxChunks) ==
    /\ StreamsOpen(i)
    /\ ChunkCount(i) < maxChunks
    /\ LET text == BufferToString(chunk)
       IN  /\ inv' = stderrHandler(inv, i, text)
           /\ caller' = IF inv[i].options[1].onStderr
                        THEN [caller EXCEPT ![i].onStderr = Append(@, text)]
                        ELSE caller
    /\ child' = [child EXCEPT ![i].stderrChunks = Append(@, chunk)]
    /\ UNCHANGED <<fs, argIn, argOut>>

\* A terminal event, with the number of chunks emitted before it.
Event(i, type, message, code) ==
    [type |-> type, message |-> message, code |-> code,
     nOut |-> Len(child[i].stdoutChunks), nErr |-> Len(child[i].stderrChunks)]

\* The "error" event of child i: emitted at most once, before "close".
ErrorEvent(i, message) ==
    /\ StreamsOpen(i)
    /\ child[i].events = <<>>
    /\ inv' = [inv EXCEPT ![i] = errorHandler(@, message)]
    /\ child' = [child EXCEPT ![i].events = Append(@, Event(i, "error", message, None))]
    /\ UNCHANGED <<fs, caller, argIn, argOut>>

\* The "close" event of child i: the process has ended and its streams are
\* closed.  It also follows an "error".
CloseEvent(i, code) ==
    /\ StreamsOpen(i)
    /\ inv' = [inv EXCEPT ![i] = closeHandler(@, code)]
    /\ child' = [child EXCEPT ![i].events = Append(@, Event(i, "close", "", code))]
    /\ UNCHANGED <<fs, caller, argIn, argOut>>

\* compile's two first steps on the options of argIn: the script path is
\* made absolute and buildArguments is applied to { ...options, scriptPath }.
BuildArgs ==
    /\ argOut = None
    /\ argOut' = Some(buildArguments(
                    [argIn EXCEPT !.scriptPath = PathToString(PathResolve(argIn.scriptPath))]))
    /\ UNCHANGED <<fs, inv, child, caller, argIn>>

\* ------------------------------------------------------------- the inputs

SeqsUpTo(S, n) == UNION {[1..k -> S] : k \in 0..n}

ScriptRel == Path(FALSE, <<"setup.iss">>)

ScriptMissing == Path(FALSE, <<"missing.iss">>)

CompilerAbs == Path(TRUE, <<"tools", "ISCC.exe">>)

CompilerMissing == Path(TRUE, <<"tools", "none.exe">>)

DirExisting == Path(FALSE, <<"dist">>)

DirNew == Path(FALSE, <<"out", "new">>)

DirUp == Path(FALSE, <<"..", "out">>)

\* The script of invocation i when several run concurrently.
ScriptOf(i) == Path(FALSE, <<"s" \o NatToString(i) \o ".iss">>)

\* The files that exist before any call, the bundled compiler apart.
BaseFiles ==
    {Cwd, <<"proj", "setup.iss">>, <<"proj", "dist">>,
     <<"tools">>, <<"tools", "ISCC.exe">>, <<"pkg">>, <<"pkg", "dist">>}
    \cup {PathResolve(ScriptOf(i)) : i \in 1..NumCalls}

DefaultOptions ==
    [scriptPath |-> ScriptRel, compilerPath |-> None, defines |-> None,
     outputDir |-> None, outputBaseName |-> None, quiet |-> None,
     extraArgs |-> None, noThrow |-> None, onStdout |-> FALSE, onStderr |-> FALSE]

DefineNames == {"A", "B", "C"}

DefineValues ==
    {BoolValue(FALSE), BoolValue(TRUE), UndefinedValue, NumValue(0),
     StrValue(""), StrValue("x y"), NumValue(0 - 12)}

\* Object.entries(defines): the entries in iteration order, no name twice.
DefineEntries ==
    {e \in SeqsUpTo([name : DefineNames, value : DefineValues], MaxDefines) :
        \A j, k \in 1..Len(e) : j # k => e[j].name # e[k].name}

ExtraArgValues == {"/Qp", "/Sx"}

SampleDefines ==
    <<[name |-> "A", value |-> StrValue("x y")], [name |-> "B", value |-> BoolValue(TRUE)]>>

\* The options buildArguments is applied to: every defines mapping with a
\* few settings of the other options, and every setting of the other
\* options with a few defines mappings.
ArgOptions ==
    {[DefaultOptions EXCEPT !.defines = d, !.quiet = q, !.outputDir = o, !.extraArgs = x] :
        d \in {None} \cup {Some(e) : e \in DefineEntries},
        q \in {None, Some(TRUE)},
        o \in {None, Some(DirExisting)},
        x \in {None, Some(<<"/Qp">>)}}
    \cup
    {[DefaultOptions EXCEPT !.scriptPath = s, !.defines = d, !.quiet = q,
                            !.outputDir = o, !.outputBaseName = b, !.extraArgs = x] :
        s \in {ScriptRel, Path(TRUE, <<"work", "app.iss">>)},
        d \in {None, Some(<<>>), Some(SampleDefines)},
        q \in {None, Some(TRUE), Some(FALSE)},
        o \in {None, Some(EmptyString), Some(DirUp)},
        b \in {None, Some(""), Some("setup")},
        x \in {None} \cup {Some(e) : e \in SeqsUpTo(ExtraArgValues, MaxExtraArgs)}}

\* The options of Spec: every way to pass or fail compile's checks, with
\* or without an output directory, under each noThrow.
MainOptions ==
    {[DefaultOptions EXCEPT !.scriptPath = s, !.compilerPath = c,
                            !.outputDir = o, !.noThrow = n] :
        s \in {ScriptRel, ScriptMissing},
        c \in {None, Some(EmptyString), Some(CompilerAbs), Some(CompilerMissing)},
        o \in {None, Some(EmptyString), Some(DirExisting), Some(DirNew)},
        n \in {None, Some(FALSE), Some(TRUE)}}

\* The options of SpecStreams: each combination of sinks.
StreamOptions ==
    {[DefaultOptions EXCEPT !.compilerPath = Some(CompilerAbs), !.noThrow = n,
                            !.onStdout = so, !.onStderr = se] :
        n \in {None, Some(TRUE)}, so \in BOOLEAN, se \in BOOLEAN}

\* The options of invocation i in SpecConcurrent: its own script, its own
\* extra argument, the bundled compiler, noThrow for the odd ones.
ConcurrentOptions(i) ==
    {[DefaultOptions EXCEPT !.scriptPath = ScriptOf(i),
                            !.extraArgs = Some(<<"/Sx" \o NatToString(i)>>),
                            !.noThrow = IF i % 2 = 1 THEN Some(TRUE) ELSE None,
                            !.onStdout = TRUE]}

\* The exit codes "close" reports: 0, a compiler failure, the negated
\* errno that follows a failure to spawn, and null for a killed process.
CloseCodes == {Some(0), Some(2), Some(0 - 2), None}

ErrorMessages == {"spawn ISCC.exe ENOENT"}

\* The chunks of Spec.
PlainChunks == {<<97>>}

\* The chunks of SpecStreams: a letter, a two-byte character, and its
\* first byte alone (the character split between two chunks).
StreamChunks == {<<97>>, <<195, 169>>, <<195>>}

\* The chunks child i emits in SpecConcurrent: its own letter.
ConcurrentChunks(i) == {<<96 + ((i - 1) % 4) + 1>>}

\* The exit code of child i in SpecConcurrent: the first succeeds, the
\* others fail, each with its own code.
ConcurrentCodes(i) == {Some(i - 1)}

Calls == 1..NumCalls

\* ------------------------------------------------------ the specifications

InitFiles == {BaseFiles, BaseFiles \cup {<<"pkg", "bin">>, DEFAULT_BUNDLED_COMPILER}}

Init ==
    /\ fs \in InitFiles
    /\ inv = [i \in Calls |-> IdleInvocation]
    /\ child = [i \in Calls |-> NoChild]
    /\ caller = [i \in Calls |-> NoCaller]
    /\ argIn = DefaultOptions
    /\ argOut = None

\* One invocation of compile and its child process.
Next ==
    \/ \E o \in MainOptions : compile(1, o)
    \/ \E c \in PlainChunks : StdoutData(1, c, MaxChunks)
    \/ \E c \in PlainChunks : StderrData(1, c, MaxChunks)
    \/ \E m \in ErrorMessages : ErrorEvent(1, m)
    \/ \E code \in CloseCodes : CloseEvent(1, code)

Spec == Init /\ [][Next]_vars

\* One invocation, with the sinks and with chunks that split a character.
NextStreams ==
    \/ \E o \in StreamOptions : compile(1, o)
    \/ \E c \in StreamChunks : StdoutData(1, c, MaxChunks)
    \/ \E c \in StreamChunks : StderrData(1, c, MaxChunks)
    \/ \E m \in ErrorMessages : ErrorEvent(1, m)
    \/ \E code \in {Some(0), Some(2)} : CloseEvent(1, code)

SpecStreams == Init /\ [][NextStreams]_vars

\* NumCalls invocations whose events interleave.
NextConcurrent ==
    \E i \in Calls :
        \/ \E o \in ConcurrentOptions(i) : compile(i, o)
        \/ \E c \in ConcurrentChunks(i) : StdoutData(i, c, MaxConcChunks)
        \/ \E c \in ConcurrentChunks(i) : StderrData(i, c, MaxConcChunks)
        \/ \E m \in ErrorMessages : ErrorEvent(i, m)
        \/ \E code \in ConcurrentCodes(i) : CloseEvent(i, code)

SpecConcurrent == Init /\ [][NextConcurrent]_vars

\* buildArguments applied to each options object of ArgOptions.
InitArgs ==
    /\ fs = BaseFiles
    /\ inv = [i \in Calls |-> IdleInvocation]
    /\ child = [i \in Calls |-> NoChild]
    /\ caller = [i \in Calls |-> NoCaller]
    /\ argIn \in ArgOptions
    /\ argOut = None

NextArgs == BuildArgs

SpecArgs == InitArgs /\ [][NextArgs]_vars

\* ------------------------------------------------- notions of the claims

\* Where invocation i is in NotStarted -> Running -> {Succeeded, Failed,
\* SpawnError}: the terminal state is that of its first terminal event.
Phase(i) ==
    IF ~child[i].spawned THEN "NotStarted"
    ELSE IF child[i].events = <<>> THEN "Running"
    ELSE IF child[i].events[1].type = "error" THEN "SpawnError"
    ELSE IF child[i].events[1].code = Some(0) THEN "Succeeded"
    ELSE "Failed"

TerminalPhases == {"Succeeded", "Failed", "SpawnError"}

RECURSIVE TextOf(_)
\* The texts of the chunks, concatenated in arrival order.
TextOf(chunks) ==
    IF chunks = <<>> THEN ""
    ELSE BufferToString(Head(chunks)) \o TextOf(Tail(chunks))

\* What child i had written to each stream when its first terminal event
\* was emitted.
StdoutBefore(i) == TextOf(SubSeq(child[i].stdoutChunks, 1, child[i].events[1].nOut))

StderrBefore(i) == TextOf(SubSeq(child[i].stderrChunks, 1, child[i].events[1].nErr))

WantsNoThrow(i) == inv[i].options[1].noThrow = Some(TRUE)

\* The result the caller of invocation i was given: the value of the
\* fulfilled promise or the result attached to the error.
Delivered(i) == inv[i].promise.result[1]

ScriptAbsent(i) ==
    PathResolve(inv[i].options[1].scriptPath) \notin caller[i].filesAtCall

ExplicitCompilerAbsent(i) ==
    /\ IsDefined(inv[i].options[1].compilerPath)
    /\ PathResolve(inv[i].options[1].compilerPath[1]) \notin caller[i].filesAtCall

BundledCompilerAbsent(i) ==
    /\ ~IsDefined(inv[i].options[1].compilerPath)
    /\ DEFAULT_BUNDLED_COMPILER \notin caller[i].filesAtCall

\* C2: a call of compile whose script does not exist, whose explicit
\* compilerPath does not exist, or that gives no compilerPath while the
\* bundled executable is absent, has thrown: no process was spawned, no
\* promise and no result exist, whatever noThrow is.
C2_PreconditionFailureThrows ==
    \A i \in Calls :
        /\ inv[i].status # "idle"
        /\ ScriptAbsent(i) \/ ExplicitCompilerAbsent(i) \/ BundledCompilerAbsent(i)
        => /\ inv[i].status = "threw"
           /\ inv[i].thrown # ""
           /\ ~child[i].spawned
           /\ inv[i].promise = NoPromise

\* noThrow is true, the script exists and the explicit compiler does not.
C2_Witness ==
    /\ inv[1].status = "threw"
    /\ inv[1].options[1].noThrow = Some(TRUE)
    /\ ~ScriptAbsent(1)
    /\ ExplicitCompilerAbsent(1)
    /\ inv[1].thrown = "Provided ISCC.exe not found: /tools/none.exe"

\* The output directory of invocation i was given and did not exist when
\* compile was called.
OutputDirWasMissing(i) ==
    /\ IsDefined(inv[i].options[1].outputDir)
    /\ PathResolve(inv[i].options[1].outputDir[1]) \notin caller[i].filesAtCall

\* C3, as claimed: after any call of compile with an outputDir that did not
\* exist beforehand, the directory exists.
C3_AnyCallCreatesOutputDir ==
    \A i \in Calls :
        inv[i].status # "idle" /\ OutputDirWasMissing(i) =>
            PathResolve(inv[i].options[1].outputDir[1]) \in fs

\* C3, amended: when a call of compile with an outputDir that did not exist
\* beforehand spawns the compiler, the directory (and its parents) exists
\* on the filesystem the process is spawned on, and exists from then on,
\* in every state of the process.
C3_SpawnedCallCreatesOutputDir ==
    \A i \in Calls :
        child[i].spawned /\ OutputDirWasMissing(i) =>
            LET dir == PathResolve(inv[i].options[1].outputDir[1])
            IN  /\ Ancestors(dir) \subseteq child[i].files
                /\ dir \in fs

\* out/new did not exist, the compiler failed to start, out/new exists.
C3_Witness ==
    /\ Phase(1) = "SpawnError"
    /\ OutputDirWasMissing(1)
    /\ <<"proj", "out", "new">> \in fs
    /\ <<"proj", "out">> \in child[1].files

\* The tokens the claim gives one entry of defines.
DefineTokensOf(entry) ==
    IF entry.value = BoolValue(FALSE) THEN <<>>
    ELSE IF entry.value \in {BoolValue(TRUE), UndefinedValue}
         THEN <<"/D" \o entry.name>>
         ELSE <<"/D" \o entry.name \o "=" \o JsString(entry.value)>>

RECURSIVE ExpectedDefineTokens(_)
ExpectedDefineTokens(entries) ==
    IF entries = <<>> THEN <<>>
    ELSE DefineTokensOf(Head(entries)) \o ExpectedDefineTokens(Tail(entries))

\* The entries of an optional list.
ListOf(o) == IF IsDefined(o) THEN o[1] ELSE <<>>

\* The tokens for quiet, outputDir and outputBaseName when "set" means a
\* non-empty string.
ExpectedFlagTokens(o) ==
    (IF o.quiet = Some(TRUE) THEN <<"/Q">> ELSE <<>>)
    \o (IF IsDefined(o.outputDir) /\ o.outputDir[1] # EmptyString
        THEN <<"/O" \o PathToString(PathResolve(o.outputDir[1]))>> ELSE <<>>)
    \o (IF IsDefined(o.outputBaseName) /\ o.outputBaseName[1] # ""
        THEN <<"/F" \o o.outputBaseName[1]>> ELSE <<>>)

\* The same when "set" means given, the empty string included.
ExpectedFlagTokensIfGiven(o) ==
    (IF o.quiet = Some(TRUE) THEN <<"/Q">> ELSE <<>>)
    \o (IF IsDefined(o.outputDir)
        THEN <<"/O" \o PathToString(PathResolve(o.outputDir[1]))>> ELSE <<>>)
    \o (IF IsDefined(o.outputBaseName)
        THEN <<"/F" \o o.outputBaseName[1]>> ELSE <<>>)

ScriptToken(o) == PathToString(PathResolve(o.scriptPath))

\* C4: in the list built for any options with a defines mapping, the tokens
\* between the flags of quiet, outputDir and outputBaseName and the extra
\* arguments are, entry by entry in iteration order: nothing for a value of
\* false, "/D" + name for true and undefined, and "/D" + name + "=" +
\* String(value) for any other value (0 and "" included); the list holds no
\* other token.
C4_DefineTokens ==
    argOut # None /\ IsDefined(argIn.defines) =>
        LET args == argOut[1]
            expected == ExpectedDefineTokens(argIn.defines[1])
            after == Len(ListOf(argIn.extraArgs)) + 1
            before == Len(ExpectedFlagTokens(argIn))
        IN  /\ Len(args) = before + Len(expected) + after
            /\ SubSeq(args, before + 1, before + Len(expected)) = expected

\* false is dropped, 0 and "" are kept with their "=".
C4_Witness ==
    /\ argIn.defines = Some(<<[name |-> "A", value |-> NumValue(0)],
                              [name |-> "B", value |-> BoolValue(FALSE)]>>)
    /\ argIn.quiet = None /\ argIn.outputDir = None /\ argIn.extraArgs = None
    /\ argOut = Some(<<"/DA=0", "/proj/setup.iss">>)

\* C5, as claimed: the list is "/Q" if quiet is true, "/O" + the absolute
\* outputDir if outputDir is set, "/F" + outputBaseName if it is set, the
\* define tokens, the extraArgs and the absolute script path, with "set"
\* read as "given".
C5_ArgumentOrderIfGiven ==
    argOut # None =>
        argOut[1] = ExpectedFlagTokensIfGiven(argIn)
                    \o ExpectedDefineTokens(ListOf(argIn.defines))
                    \o ListOf(argIn.extraArgs)
                    \o <<ScriptToken(argIn)>>

\* C5, amended: the list is "/Q" if quiet is true, "/O" + the absolute
\* outputDir if outputDir is a non-empty string, "/F" + outputBaseName if
\* it is a non-empty string, the define tokens, the extraArgs in the given
\* order and the absolute script path, which is the last element.
C5_ArgumentOrder ==
    argOut # None =>
        LET args == argOut[1]
            extra == ListOf(argIn.extraArgs)
        IN  /\ args = ExpectedFlagTokens(argIn)
                      \o ExpectedDefineTokens(ListOf(argIn.defines))
                      \o extra
                      \o <<ScriptToken(argIn)>>
            /\ args[Len(args)] = ScriptToken(argIn)
            /\ Len(args) > Len(extra)
            /\ SubSeq(args, Len(args) - Len(extra), Len(args) - 1) = extra

\* Every option given, two extra arguments.
C5_Witness ==
    /\ argIn.quiet = Some(TRUE)
    /\ argIn.outputDir = Some(DirUp)
    /\ argIn.outputBaseName = Some("setup")
    /\ argIn.defines = Some(SampleDefines)
    /\ argIn.extraArgs = Some(<<"/Sx", "/Qp">>)
    /\ argIn.scriptPath = ScriptRel
    /\ argOut = Some(<<"/Q", "/O/out", "/Fsetup", "/DA=x y", "/DB",
                       "/Sx", "/Qp", "/proj/setup.iss">>)

\* C6: in every CompilerResult, delivered by a fulfilled promise or
\* attached to the error of a rejected one, success is true exactly when
\* exitCode is 0; a null exit code has success false.
C6_SuccessIffExitCodeZero ==
    \A i \in Calls :
        IsDefined(inv[i].promise.result) =>
            /\ Delivered(i).success <=> (Delivered(i).exitCode = Some(0))
            /\ Delivered(i).exitCode = None => ~Delivered(i).success

\* The process was killed: "close" reported a null code.
C6_Witness ==
    /\ Phase(1) = "Failed"
    /\ child[1].events[1].code = None
    /\ Delivered(1).exitCode = None
    /\ ~Delivered(1).success

\* What invocation i holds is what its own child process emitted.
OwnOutputOnly(i) ==
    /\ inv[i].stdout = TextOf(child[i].stdoutChunks)
    /\ inv[i].stderr = TextOf(child[i].stderrChunks)
    /\ inv[i].command = child[i].command
    /\ inv[i].args = child[i].args
    /\ inv[i].args[Len(inv[i].args)] = PathToString(PathResolve(ScriptOf(i)))
    /\ Len(caller[i].onStdout) = Len(child[i].stdoutChunks)
    /\ \A k \in 1..Len(caller[i].onStdout) :
            caller[i].onStdout[k] = BufferToString(child[i].stdoutChunks[k])
    /\ Phase(i) \in TerminalPhases =>
            /\ Delivered(i).command = child[i].command
            /\ Delivered(i).args = child[i].args
            /\ Delivered(i).stdout = StdoutBefore(i)
            /\ Delivered(i).exitCode =
                  (IF Phase(i) = "SpawnError" THEN None ELSE child[i].events[1].code)

\* A step in which child i emits nothing and compile is not called for i
\* leaves invocation i as it is.
OthersUntouched ==
    \A i \in Calls :
        child'[i] = child[i] /\ (inv[i].status = inv'[i].status) =>
            inv'[i] = inv[i] /\ caller'[i] = caller[i]

\* C7: with several invocations whose events interleave in any order, each
\* invocation's buffers, sinks and result hold the chunks of its own child
\* process only, its command, args and exit code are its own process's, and
\* an event of one process changes nothing of another invocation.
C7_InvocationsIndependent ==
    /\ [](\A i \in Calls : child[i].spawned => OwnOutputOnly(i))
    /\ [][OthersUntouched]_vars

\* Both invocations are over, each with its own letter and its own code.
C7_Witness ==
    /\ Phase(1) = "Succeeded" /\ Phase(2) = "Failed"
    /\ Delivered(1).stdout = "a" /\ Delivered(2).stdout = "b"
    /\ Delivered(1).stderr = "" /\ Delivered(2).stderr = ""
    /\ Delivered(1).command = "/pkg/bin/ISCC.exe"
    /\ Delivered(2).exitCode = Some(1)
    /\ Delivered(1).args = <<"/Sx1", "/proj/s1.iss">>
    /\ Delivered(2).args = <<"/Sx2", "/proj/s2.iss">>

\* The buffers hold every chunk received, in arrival order, and each sink
\* that was supplied was given the chunks one by one.
Accumulated(i) ==
    /\ inv[i].stdout = TextOf(child[i].stdoutChunks)
    /\ inv[i].stderr = TextOf(child[i].stderrChunks)
    /\ caller[i].onStdout =
          (IF inv[i].options[1].onStdout
           THEN [k \in 1..Len(child[i].stdoutChunks) |->
                    BufferToString(child[i].stdoutChunks[k])]
           ELSE <<>>)
    /\ caller[i].onStderr =
          (IF inv[i].options[1].onStderr
           THEN [k \in 1..Len(child[i].stderrChunks) |->
                    BufferToString(child[i].stderrChunks[k])]
           ELSE <<>>)

\* C8, as claimed: the stdout and the stderr of the result built at the
\* terminal event are the concatenation of the chunks received before it.
C8_ResultIsCapturedOutput ==
    \A i \in Calls :
        Phase(i) \in TerminalPhases =>
            /\ Delivered(i).stdout = StdoutBefore(i)
            /\ Delivered(i).stderr = StderrBefore(i)

\* C8, amended: every chunk is appended to its stream's buffer and given to
\* its stream's sink, when supplied, one call per chunk in arrival order;
\* the result built at the terminal event has the concatenation of the
\* stdout chunks received before it as stdout, and that of the stderr
\* chunks as stderr, except that the result of an "error" event with no
\* stderr received has the error's message as stderr.
C8_Accumulation ==
    \A i \in Calls :
        child[i].spawned =>
            /\ Accumulated(i)
            /\ Phase(i) \in TerminalPhases =>
                    /\ Delivered(i).stdout = StdoutBefore(i)
                    /\ Delivered(i).stderr =
                          (IF Phase(i) = "SpawnError" /\ StderrBefore(i) = ""
                           THEN child[i].events[1].message
                           ELSE StderrBefore(i))

\* Two stdout chunks, the first an incomplete character: both are in the
\* result, the sink had them one by one.
C8_Witness ==
    /\ Phase(1) = "Succeeded"
    /\ child[1].stdoutChunks = << <<195>>, <<97>> >>
    /\ inv[1].options[1].onStdout /\ ~inv[1].options[1].onStderr
    /\ caller[1].onStdout = <<"<U+FFFD>", "a">>
    /\ Delivered(1).stdout = "<U+FFFD>a"

IsSettled(p) == p.state \in {"fulfilled", "rejected"}

\* The promise of invocation i is settled exactly when a terminal event
\* has been emitted.
SettledByTerminalEvent(i) ==
    /\ Phase(i) = "NotStarted" => inv[i].promise = NoPromise
    /\ Phase(i) = "Running" => inv[i].promise = PendingPromise
    /\ Phase(i) \in TerminalPhases => IsSettled(inv[i].promise)

\* One step of invocation i's state machine and of its promise.
LifecycleStep(i) ==
    LET before == Phase(i)
        after == IF ~child'[i].spawned THEN "NotStarted"
                 ELSE IF child'[i].events = <<>> THEN "Running"
                 ELSE IF child'[i].events[1].type = "error" THEN "SpawnError"
                 ELSE IF child'[i].events[1].code = Some(0) THEN "Succeeded"
                 ELSE "Failed"
    IN  /\ before = "NotStarted" => after \in {"NotStarted", "Running"}
        /\ before = "Running" => after \in {"Running"} \cup TerminalPhases
        /\ before \in TerminalPhases => after = before
        /\ IsSettled(inv[i].promise) => inv'[i].promise = inv[i].promise

\* C10: an invocation that spawns a process goes NotStarted -> Running ->
\* one of Succeeded, Failed, SpawnError; its promise is pending while it
\* runs, is settled in the step of the first terminal event, and a later
\* terminal event ("close" after "error") changes neither the terminal
\* state, the outcome nor the result delivered.
C10_SettledOnce ==
    /\ [](\A i \in Calls : SettledByTerminalEvent(i))
    /\ [][\A i \in Calls : LifecycleStep(i)]_vars

\* "error" then "close": the outcome is still that of "error".
C10_Witness ==
    /\ Len(child[1].events) = 2
    /\ child[1].events[1].type = "error"
    /\ child[1].events[2].type = "close"
    /\ child[1].events[2].code = Some(0)
    /\ ~WantsNoThrow(1)
    /\ inv[1].promise.state = "rejected"
    /\ inv[1].promise.message = "Failed to start Inno Setup compiler."

====
